---- MODULE Spec2Model ----
(***************************************************************************)
(* Model of scripts/aci_migration_automation.py: the Nexus configuration   *)
(* parser (NexusConfigParser) and the pre-migration validator              *)
(* (MigrationValidator); and of the deploy phase of                        *)
(* scripts/migrate_orchestrator.py (MigrationOrchestrator).  Python str    *)
(* values are TLA+ strings; Python lists and insertion-ordered dicts are   *)
(* sequences.                                                              *)
(***************************************************************************)
EXTENDS Integers, Sequences, FiniteSets, TLC

VARIABLES
    phase,              \* position of the modelled call
    vlan_string,        \* argument of _parse_vlan_list
    vlan_list,          \* outcome of _parse_vlan_list: [ok, val]
    line,               \* raw line handed to the loop body of parse_config_file
    config_data,        \* parse_config_file: the record being built
    current_section,    \* parse_config_file: "none" | "vlan" | "interface"
    current_interface,  \* parse_config_file: "" (None) or an interface name
    last_emitted,       \* history: ids emitted by the most recent `vlan` line
    nlines,             \* number of lines of the file consumed so far
    config_files,       \* the *.cfg files of config_dir: file name -> file
    parsed_configs,     \* NexusConfigParser.parsed_configs
    vlan_consistency,   \* outcome of _check_vlan_consistency
    results,            \* outcome of pre_migration_check
    check_inputs,       \* history: APIC replies and mapping table of that call
    vlan_mapping,       \* outcome of generate_migration_mapping in that call
    tenant_files,       \* the *.json files of the tenant directory: name -> file
    deployment          \* outcome of deploy_aci_configuration and of main

expander_vars == <<vlan_string, vlan_list>>
parser_vars == <<line, config_data, current_section, current_interface,
                 last_emitted, nlines>>
validator_vars == <<config_files, parsed_configs, vlan_consistency, results,
                    check_inputs, vlan_mapping>>
deploy_vars == <<tenant_files, deployment>>
vars == <<phase, vlan_string, vlan_list, line, config_data, current_section,
          current_interface, last_emitted, nlines, config_files, parsed_configs,
          vlan_consistency, results, check_inputs, vlan_mapping,
          tenant_files, deployment>>

-----------------------------------------------------------------------------
(* Bounds *)

\* longest range spec handed to _parse_vlan_list in SpecExpand
MaxSpecLen == 5

\* longest file read line by line in SpecParse
MaxLines == 4

\* most *.cfg files in the directory in SpecLoad
MaxDevices == 3

\* most numbered tenant files in the tenant directory in SpecDeploy
MaxTenants == 2

-----------------------------------------------------------------------------
(* Python str primitives *)

Ch(s, i) == SubSeq(s, i, i)

IsSpace(c) == c = " "

Digits == {"0", "1", "2", "3", "4", "5", "6", "7", "8", "9"}

DigitVal(c) ==
    CASE c = "0" -> 0 [] c = "1" -> 1 [] c = "2" -> 2 [] c = "3" -> 3
      [] c = "4" -> 4 [] c = "5" -> 5 [] c = "6" -> 6 [] c = "7" -> 7
      [] c = "8" -> 8 [] c = "9" -> 9

RECURSIVE LStrip(_)
LStrip(s) ==
    IF Len(s) > 0 /\ IsSpace(Ch(s, 1)) THEN LStrip(SubSeq(s, 2, Len(s))) ELSE s

RECURSIVE RStrip(_)
RStrip(s) ==
    IF Len(s) > 0 /\ IsSpace(Ch(s, Len(s))) THEN RStrip(SubSeq(s, 1, Len(s) - 1)) ELSE s

\* str.strip()
Strip(s) == RStrip(LStrip(s))

\* str.startswith(p)
StartsWith(s, p) == Len(s) >= Len(p) /\ SubSeq(s, 1, Len(p)) = p

\* c in s, for a one-character c
Contains(s, c) == \E i \in 1..Len(s) : Ch(s, i) = c

\* index of the first occurrence of c in s, Len(s) + 1 when there is none
FirstIndex(s, c) ==
    IF Contains(s, c)
    THEN CHOOSE i \in 1..Len(s) : Ch(s, i) = c /\ \A j \in 1..(i - 1) : Ch(s, j) # c
    ELSE Len(s) + 1

\* str.split(sep) for a one-character sep: empty pieces are kept
RECURSIVE SplitOn(_, _)
SplitOn(s, sep) ==
    IF ~Contains(s, sep) THEN <<s>>
    ELSE LET i == FirstIndex(s, sep)
         IN  <<SubSeq(s, 1, i - 1)>> \o SplitOn(SubSeq(s, i + 1, Len(s)), sep)

\* str.split(): split on runs of whitespace, no empty pieces
RECURSIVE SplitWs(_)
SplitWs(s) ==
    LET t == LStrip(s)
    IN  IF Len(t) = 0 THEN <<>>
        ELSE LET i == FirstIndex(t, " ")
             IN  <<SubSeq(t, 1, i - 1)>> \o SplitWs(SubSeq(t, i, Len(t)))

\* ' '.join(toks)
RECURSIVE JoinSp(_)
JoinSp(toks) ==
    IF Len(toks) = 0 THEN ""
    ELSE IF Len(toks) = 1 THEN toks[1]
    ELSE toks[1] \o " " \o JoinSp(Tail(toks))

AllDigits(t) == Len(t) > 0 /\ \A i \in 1..Len(t) : Ch(t, i) \in Digits

\* whether int(s) returns: surrounding whitespace and one sign are accepted
IsIntLit(s) ==
    LET t == Strip(s)
    IN  IF Len(t) > 0 /\ Ch(t, 1) \in {"+", "-"}
        THEN AllDigits(SubSeq(t, 2, Len(t)))
        ELSE AllDigits(t)

RECURSIVE DecVal(_)
DecVal(t) ==
    IF Len(t) = 0 THEN 0
    ELSE 10 * DecVal(SubSeq(t, 1, Len(t) - 1)) + DigitVal(Ch(t, Len(t)))

\* int(s), where IsIntLit(s)
IntOf(s) ==
    LET t == Strip(s)
    IN  IF Ch(t, 1) = "-" THEN 0 - DecVal(SubSeq(t, 2, Len(t)))
        ELSE IF Ch(t, 1) = "+" THEN DecVal(SubSeq(t, 2, Len(t)))
        ELSE DecVal(t)

\* [str(i) for i in range(a, b + 1)]
StrRange(a, b) == [i \in 1..(b - a + 1) |-> ToString(a + i - 1)]

\* outcome of a call: a value, or an exception raised
Ok(v) == [ok |-> TRUE, val |-> v]
Raised == [ok |-> FALSE, val |-> <<>>]

-----------------------------------------------------------------------------
(* NexusConfigParser._parse_vlan_list *)

\* start, end = part.split('-'); range(int(start), int(end) + 1)
DashRange(part) ==
    LET pieces == SplitOn(part, "-")
    IN  IF Len(pieces) # 2 THEN Raised
        ELSE IF ~IsIntLit(pieces[1]) \/ ~IsIntLit(pieces[2]) THEN Raised
        ELSE Ok(StrRange(IntOf(pieces[1]), IntOf(pieces[2])))

\* mutant: the range loses its upper end (range(int(start), int(end)))
ExpandPart_exclusive(raw) ==
    LET part == Strip(raw)
        pieces == SplitOn(part, "-")
    IN  IF Contains(part, "-")
        THEN IF Len(pieces) # 2 THEN Raised
             ELSE IF ~IsIntLit(pieces[1]) \/ ~IsIntLit(pieces[2]) THEN Raised
             ELSE Ok(StrRange(IntOf(pieces[1]), IntOf(pieces[2]) - 1))
        ELSE Ok(<<part>>)

\* one iteration of the loop over parts
ExpandPart(raw) ==
    LET part == Strip(raw)
    IN  IF Contains(part, "-") THEN DashRange(part) ELSE Ok(<<part>>)

RECURSIVE ExpandParts(_)
ExpandParts(parts) ==
    IF Len(parts) = 0 THEN Ok(<<>>)
    ELSE LET first == ExpandPart(parts[1])
             rest == ExpandParts(Tail(parts))
         IN  IF first.ok /\ rest.ok THEN Ok(first.val \o rest.val) ELSE Raised

parse_vlan_list(s) == ExpandParts(SplitOn(s, ","))

-----------------------------------------------------------------------------
(* Python dict, insertion-ordered: a sequence of [key, val] with unique keys *)

HasKey(d, k) == \E i \in 1..Len(d) : d[i].key = k

KeyIndex(d, k) == CHOOSE i \in 1..Len(d) : d[i].key = k

DictGet(d, k) == d[KeyIndex(d, k)].val

\* d[k] = v: an existing key keeps its position, a new key goes last
DictSet(d, k, v) ==
    IF HasKey(d, k)
    THEN [i \in 1..Len(d) |-> IF d[i].key = k THEN [key |-> k, val |-> v] ELSE d[i]]
    ELSE Append(d, [key |-> k, val |-> v])

Keys(d) == [i \in 1..Len(d) |-> d[i].key]

KeySet(d) == {d[i].key : i \in 1..Len(d)}

-----------------------------------------------------------------------------
(* NexusConfigParser.parse_config_file *)

EmptyConfig ==
    [hostname |-> "", vlans |-> <<>>, interfaces |-> <<>>,
     vpc_config |-> <<>>, routing |-> <<>>]

NewInterface ==
    [type |-> "unknown", mode |-> "access", vlans |-> <<>>, description |-> ""]

\* state of the loop: the record built so far and the two cursors
LoopState(cfg, sec, ifc, emitted) ==
    [ok |-> TRUE, cfg |-> cfg, sec |-> sec, ifc |-> ifc, emitted |-> emitted]

Abort(st) == [st EXCEPT !.ok = FALSE]

DefaultName(id) == "VLAN_" \o id

\* config_data['vlans'][id] = {'name': f'VLAN_{id}'} for each id, in order
RECURSIVE InsertVlans(_, _)
InsertVlans(vlans, ids) ==
    IF Len(ids) = 0 THEN vlans
    ELSE InsertVlans(DictSet(vlans, ids[1], [name |-> DefaultName(ids[1])]), Tail(ids))

\* ids a `vlan <arg>` line defines: a range when '-' occurs, else the argument itself
VlanLineIds(vlan_range) ==
    IF Contains(vlan_range, "-") THEN DashRange(vlan_range) ELSE Ok(<<vlan_range>>)

\* the `vlan ` branch
VlanLine(st, toks) ==
    LET ids == VlanLineIds(toks[2])
    IN  IF ~ids.ok THEN Abort([st EXCEPT !.sec = "vlan"])
        ELSE [st EXCEPT !.sec = "vlan",
                        !.cfg.vlans = InsertVlans(st.cfg.vlans, ids.val),
                        !.emitted = ids.val]

\* last_vlan = list(config_data['vlans'].keys())[-1]
NameTarget(vlans) == vlans[Len(vlans)].key

\* the `name ` branch, taken only in the vlan section
NameLine(st, toks) ==
    IF Len(st.cfg.vlans) = 0 THEN st
    ELSE [st EXCEPT !.cfg.vlans =
            DictSet(st.cfg.vlans, NameTarget(st.cfg.vlans),
                    [name |-> JoinSp(Tail(toks))])]

\* the `interface ` branch
InterfaceLine(st, toks) ==
    [st EXCEPT !.sec = "interface", !.ifc = toks[2],
               !.cfg.interfaces = DictSet(st.cfg.interfaces, toks[2], NewInterface)]

SetInterfaceField(st, rec) ==
    [st EXCEPT !.cfg.interfaces = DictSet(st.cfg.interfaces, st.ifc, rec)]

\* mutant: the allowed-VLAN list is appended to the members already there
InterfaceBody_extend(st, ln, toks) ==
    LET cur == DictGet(st.cfg.interfaces, st.ifc)
    IN  IF StartsWith(ln, "description ")
        THEN SetInterfaceField(st, [cur EXCEPT !.description = JoinSp(Tail(toks))])
        ELSE IF StartsWith(ln, "switchport mode")
        THEN SetInterfaceField(st, [cur EXCEPT !.mode = toks[Len(toks)]])
        ELSE IF StartsWith(ln, "switchport access vlan")
        THEN SetInterfaceField(st, [cur EXCEPT !.vlans = <<toks[Len(toks)]>>])
        ELSE IF StartsWith(ln, "switchport trunk allowed vlan")
        THEN LET vlans == parse_vlan_list(JoinSp(SubSeq(toks, 5, Len(toks))))
             IN  IF vlans.ok
                 THEN SetInterfaceField(st, [cur EXCEPT !.vlans = cur.vlans \o vlans.val])
                 ELSE Abort(st)
        ELSE st

\* the branch taken whenever an interface is current: unmatched lines fall through it
InterfaceBody(st, ln, toks) ==
    LET cur == DictGet(st.cfg.interfaces, st.ifc)
    IN  IF StartsWith(ln, "description ")
        THEN SetInterfaceField(st, [cur EXCEPT !.description = JoinSp(Tail(toks))])
        ELSE IF StartsWith(ln, "switchport mode")
        THEN SetInterfaceField(st, [cur EXCEPT !.mode = toks[Len(toks)]])
        ELSE IF StartsWith(ln, "switchport access vlan")
        THEN SetInterfaceField(st, [cur EXCEPT !.vlans = <<toks[Len(toks)]>>])
        ELSE IF StartsWith(ln, "switchport trunk allowed vlan")
        THEN LET vlans == parse_vlan_list(JoinSp(SubSeq(toks, 5, Len(toks))))
             IN  IF vlans.ok
                 THEN SetInterfaceField(st, [cur EXCEPT !.vlans = vlans.val])
                 ELSE Abort(st)
        ELSE st

\* the body of `for line in lines`, one raw line
ParseLine(st, raw) ==
    LET ln == Strip(raw)
        toks == SplitWs(ln)
    IN  IF StartsWith(ln, "!") \/ Len(ln) = 0 THEN st
        ELSE IF StartsWith(ln, "hostname")
        THEN IF Len(toks) < 2 THEN Abort(st)
             ELSE [st EXCEPT !.cfg.hostname = toks[2]]
        ELSE IF StartsWith(ln, "vlan ") THEN VlanLine(st, toks)
        ELSE IF StartsWith(ln, "name ") /\ st.sec = "vlan" THEN NameLine(st, toks)
        ELSE IF StartsWith(ln, "interface ") THEN InterfaceLine(st, toks)
        ELSE IF st.sec = "interface" /\ st.ifc # "" THEN InterfaceBody(st, ln, toks)
        ELSE IF ~StartsWith(ln, " ") /\ st.sec # "none"
        THEN [st EXCEPT !.sec = "none", !.ifc = ""]
        ELSE st

\* the loop over the lines; an exception ends it with the record as built so far
RECURSIVE ParseFrom(_, _)
ParseFrom(st, lines) ==
    IF Len(lines) = 0 THEN st
    ELSE LET next == ParseLine(st, Head(lines))
         IN  IF next.ok THEN ParseFrom(next, Tail(lines)) ELSE next

\* parse_config_file: a file that cannot be opened gives the empty record
parse_config_file(file) ==
    IF ~file.readable THEN EmptyConfig
    ELSE ParseFrom(LoopState(EmptyConfig, "none", "", <<>>), file.lines).cfg

-----------------------------------------------------------------------------
(* NexusConfigParser.parse_all_configs *)

\* Path.stem of a name ending in ".cfg"
Stem(name) == SubSeq(name, 1, Len(name) - 4)

\* injective sequences enumerating the set S: the orders an iteration may take
Orders(S) ==
    {p \in [1..Cardinality(S) -> S] : \A i, j \in 1..Cardinality(S) : p[i] = p[j] => i = j}

FileFails(file) ==
    file.readable /\ ~ParseFrom(LoopState(EmptyConfig, "none", "", <<>>), file.lines).ok

\* mutant: parse_config_file without its try/except, so the exception leaves the loop
ParseAll_propagating(configs, files, order) ==
    LET RECURSIVE go(_, _)
        go(acc, i) ==
            IF i > Len(order) THEN Ok(acc)
            ELSE IF FileFails(files[order[i]]) \/ ~files[order[i]].readable
            THEN [ok |-> FALSE, val |-> acc]
            ELSE go(DictSet(acc, Stem(order[i]), parse_config_file(files[order[i]])), i + 1)
    IN  go(configs, 1)

\* the loop over config_files, in the order glob listed them; nothing in it raises
ParseAll(configs, files, order) ==
    LET RECURSIVE go(_, _)
        go(acc, i) ==
            IF i > Len(order) THEN Ok(acc)
            ELSE go(DictSet(acc, Stem(order[i]), parse_config_file(files[order[i]])), i + 1)
    IN  go(configs, 1)

-----------------------------------------------------------------------------
(* MigrationValidator._check_vlan_consistency *)

AllVlans(configs) == UNION {KeySet(configs[i].val.vlans) : i \in 1..Len(configs)}

\* [x for x in xs if x in S]: the elements of xs that are in S, in the order of xs
RECURSIVE FilterIn(_, _)
FilterIn(xs, S) ==
    IF Len(xs) = 0 THEN <<>>
    ELSE (IF xs[1] \in S THEN <<xs[1]>> ELSE <<>>) \o FilterIn(Tail(xs), S)

Range(xs) == {xs[i] : i \in 1..Len(xs)}

\* [switch for switch, vlans in switch_vlans.items() if vlan in vlans]
SwitchesWith(configs, vlan) ==
    FilterIn(Keys(configs),
             {sw \in KeySet(configs) : vlan \in KeySet(DictGet(configs, sw).vlans)})

\* [switch for switch in parsed_configs.keys() if switch not in switches_with_vlan]
MissingFrom(configs, vlan) ==
    FilterIn(Keys(configs), KeySet(configs) \ Range(SwitchesWith(configs, vlan)))

\* mutant: a VLAN counts as inconsistent only when no more than one switch has it
IsInconsistent_single(configs, vlan) == Len(SwitchesWith(configs, vlan)) <= 1

\* len(switches_with_vlan) != len(parsed_configs)
IsInconsistent(configs, vlan) == Len(SwitchesWith(configs, vlan)) # Len(configs)

\* the loop over all_vlans, in the order the set is iterated
RECURSIVE Inconsistent(_, _)
Inconsistent(configs, vlan_order) ==
    IF Len(vlan_order) = 0 THEN <<>>
    ELSE (IF IsInconsistent(configs, vlan_order[1])
          THEN <<[vlan |-> vlan_order[1],
                  missing_from |-> MissingFrom(configs, vlan_order[1])]>>
          ELSE <<>>) \o Inconsistent(configs, Tail(vlan_order))

\* mutant: any inconsistency fails the check
ConsistencyStatus_fail(inconsistent_vlans) ==
    IF Len(inconsistent_vlans) = 0 THEN "pass" ELSE "fail"

\* 'pass' if not inconsistent_vlans else 'warning'
ConsistencyStatus(inconsistent_vlans) ==
    IF Len(inconsistent_vlans) = 0 THEN "pass" ELSE "warning"

check_vlan_consistency(configs, vlan_order) ==
    LET inconsistent_vlans == Inconsistent(configs, vlan_order)
    IN  [status |-> ConsistencyStatus(inconsistent_vlans),
         details |-> [total_vlans |-> Cardinality(AllVlans(configs)),
                      inconsistent_vlans |-> inconsistent_vlans]]

-----------------------------------------------------------------------------
(* ACIConnector.validate_fabric_health *)

\* replies of the APIC to the two queries: the request raises, answers with a
\* status other than 200, or answers 200 with its imdata
RaisingReply == [kind |-> "raise", total |-> 0, up |-> 0]
Non200Reply == [kind |-> "status", total |-> 0, up |-> 0]
NodesReply(total, up) == [kind |-> "ok", total |-> total, up |-> up]
FaultsReply(n) == [kind |-> "ok", total |-> n, up |-> 0]

\* mutant: five critical faults are already critical
OverallHealth_five(critical_faults, nodes_up, total_nodes) ==
    IF critical_faults = 0 /\ nodes_up = total_nodes THEN "healthy"
    ELSE IF critical_faults >= 5 \/ 10 * nodes_up < 8 * total_nodes THEN "critical"
    ELSE "warning"

\* nodes_up < total_nodes * 0.8 is compared in tenths
OverallHealth(critical_faults, nodes_up, total_nodes) ==
    IF critical_faults = 0 /\ nodes_up = total_nodes THEN "healthy"
    ELSE IF critical_faults > 5 \/ 10 * nodes_up < 8 * total_nodes THEN "critical"
    ELSE "warning"

validate_fabric_health(nodes, faults) ==
    LET total_nodes == IF nodes.kind = "ok" THEN nodes.total ELSE 0
        nodes_up == IF nodes.kind = "ok" THEN nodes.up ELSE 0
        critical_faults == IF faults.kind = "ok" THEN faults.total ELSE 0
    IN  IF nodes.kind = "raise"
        THEN [overall_health |-> "error", critical_faults |-> 0,
              nodes_up |-> 0, total_nodes |-> 0]
        ELSE IF faults.kind = "raise"
        THEN [overall_health |-> "error", critical_faults |-> 0,
              nodes_up |-> nodes_up, total_nodes |-> total_nodes]
        ELSE [overall_health |-> OverallHealth(critical_faults, nodes_up, total_nodes),
              critical_faults |-> critical_faults,
              nodes_up |-> nodes_up, total_nodes |-> total_nodes]

-----------------------------------------------------------------------------
(* NexusConfigParser.generate_migration_mapping *)

RequiredColumns ==
    {"Nexus_VLAN", "VLAN_Name", "ACI_Tenant", "ACI_Application_Profile", "ACI_EPG",
     "ACI_Bridge_Domain", "Subnet", "Migration_Priority", "Notes"}

\* the mapping file: it cannot be opened, or csv.DictReader yields one row per
\* line, a function from the header's columns to the cells
Row(header, id) == [c \in header |-> IF c = "Nexus_VLAN" THEN id ELSE c \o " of " \o id]

Table(header, ids) ==
    [readable |-> TRUE, header |-> header,
     rows |-> [i \in 1..Len(ids) |-> Row(header, ids[i])]]

UnreadableTable == [readable |-> FALSE, header |-> {}, rows |-> <<>>]

MappingEntry(row) ==
    [vlan_name |-> row["VLAN_Name"], tenant |-> row["ACI_Tenant"],
     app_profile |-> row["ACI_Application_Profile"], epg |-> row["ACI_EPG"],
     bridge_domain |-> row["ACI_Bridge_Domain"], subnet |-> row["Subnet"],
     priority |-> row["Migration_Priority"], notes |-> row["Notes"]]

\* mutant: the cells are read with row.get, so a row is loaded with the columns
\* the header has
RECURSIVE LoadRows_lenient(_, _)
LoadRows_lenient(mapping, rows) ==
    IF Len(rows) = 0 THEN mapping
    ELSE IF "Nexus_VLAN" \notin DOMAIN rows[1] THEN mapping
    ELSE LoadRows_lenient(DictSet(mapping, rows[1]["Nexus_VLAN"], rows[1]), Tail(rows))

\* the loop over the rows; a KeyError ends it with the mapping as built so far
RECURSIVE LoadRows(_, _)
LoadRows(mapping, rows) ==
    IF Len(rows) = 0 THEN mapping
    ELSE IF ~(RequiredColumns \subseteq DOMAIN rows[1]) THEN mapping
    ELSE LoadRows(DictSet(mapping, rows[1]["Nexus_VLAN"], MappingEntry(rows[1])),
                  Tail(rows))

generate_migration_mapping(table) ==
    IF ~table.readable THEN <<>> ELSE LoadRows(<<>>, table.rows)

-----------------------------------------------------------------------------
(* MigrationValidator.pre_migration_check *)

\* mutant: every status other than 'pass' counts as a failed check
IsFailed_notpass(status) == status # "pass"

\* check['status'] == 'fail'
IsFailed(status) == status = "fail"

CheckNames == {"fabric_health", "config_parsing", "vlan_consistency", "migration_mapping"}

\* mutant: the parsing check passes only when some device has a VLAN
ConfigParsingStatus_nonempty(configs) ==
    IF \E i \in 1..Len(configs) : Len(configs[i].val.vlans) > 0 THEN "pass" ELSE "fail"

\* 'pass' if parsed_configs else 'fail'
ConfigParsingStatus(configs) == IF Len(configs) > 0 THEN "pass" ELSE "fail"

OverallStatus(checks) ==
    IF \E c \in CheckNames : IsFailed(checks[c].status) THEN "fail" ELSE "pass"

\* the checks, given the fabric health, the corpus parse_all_configs returned, the
\* order in which the set all_vlans is iterated, and the mapping loaded
pre_migration_check(fabric_health, configs, vlan_order, migration_mapping) ==
    LET checks ==
          [fabric_health |->
              [status |-> IF fabric_health.overall_health = "healthy"
                          THEN "pass" ELSE "fail",
               details |-> fabric_health],
           config_parsing |->
              [status |-> ConfigParsingStatus(configs),
               details |-> "Parsed " \o ToString(Len(configs)) \o " configuration files"],
           vlan_consistency |-> check_vlan_consistency(configs, vlan_order),
           migration_mapping |->
              [status |-> IF Len(migration_mapping) > 0 THEN "pass" ELSE "fail",
               details |-> "Loaded mapping for " \o ToString(Len(migration_mapping))
                           \o " VLANs"]]
    IN  [overall_status |-> OverallStatus(checks), checks |-> checks]

-----------------------------------------------------------------------------
(* MigrationOrchestrator.deploy_aci_configuration and the deploy phase of main *)

\* values of the result dicts: a str, a dict (its items in insertion order), None
PyStr(s) == [type |-> "str", str |-> s, items |-> <<>>]
PyDict(items) == [type |-> "dict", str |-> "", items |-> items]
PyNone == [type |-> "NoneType", str |-> "", items |-> <<>>]

\* result.get(key)
Get(result, key) ==
    IF HasKey(result.items, key) THEN DictGet(result.items, key) ELSE PyNone

\* replies of the APIC to the post of create_tenant: the request raises, or answers
\* with a status code
PostRaises == [kind |-> "raise", status_code |-> 0]
PostStatus(code) == [kind |-> "status", status_code |-> code]

\* ACIConnector.create_tenant: True on 200 or 201, False otherwise or on an exception
create_tenant(reply) == reply.kind = "status" /\ reply.status_code \in {200, 201}

\* a tenant file: json.load reads it and create_tenant gets the reply, or reading
\* it raises
TenantFile(reply) == [readable |-> TRUE, reply |-> reply]
UnreadableTenant == [readable |-> FALSE, reply |-> PostRaises]

TenantName(file_name) == SubSeq(file_name, 1, Len(file_name) - 5)

\* the entry results[tenant_name] of one tenant file
TenantResult(file_name, file) ==
    IF file.readable
    THEN PyDict(<<[key |-> "status",
                  val |-> PyStr(IF create_tenant(file.reply)
                                THEN "success" ELSE "failed")],
                 [key |-> "config_file", val |-> PyStr(file_name)]>>)
    ELSE PyDict(<<[key |-> "status", val |-> PyStr("failed")],
                 [key |-> "error", val |-> PyStr("cannot read " \o file_name)]>>)

\* the dict keyed by tenant name, filled in the order glob listed the files
deploy_tenant_configurations(files, order) ==
    LET RECURSIVE go(_, _)
        go(acc, i) ==
            IF i > Len(order) THEN PyDict(acc)
            ELSE go(DictSet(acc, TenantName(order[i]),
                            TenantResult(order[i], files[order[i]])), i + 1)
    IN  go(<<>>, 1)

deploy_fabric_configuration ==
    PyDict(<<[key |-> "status", val |-> PyStr("success")],
             [key |-> "details",
              val |-> PyStr("Fabric configuration deployment not fully implemented")]>>)

\* [name for name, result in deployments.items() if result.get('status') == 'failed']
FailedDeployments(deployments) ==
    {i \in 1..Len(deployments) : Get(deployments[i].val, "status") = PyStr("failed")}

\* configured: self.config names the tenant directory; when it does not, the
\* lookup raises KeyError inside the try
deploy_aci_configuration(phase_arg, configured, files, order) ==
    LET fabric == IF phase_arg \in {"fabric", "all"}
                  THEN <<[key |-> "fabric", val |-> deploy_fabric_configuration]>>
                  ELSE <<>>
        deployments == IF phase_arg \in {"tenants", "all"}
                       THEN DictSet(fabric, "tenants",
                                    deploy_tenant_configurations(files, order))
                       ELSE fabric
    IN  IF phase_arg \in {"tenants", "all"} /\ ~configured
        THEN [phase |-> phase_arg, deployments |-> fabric,
              overall_status |-> "failed", error |-> "'tenant_configs_directory'"]
        ELSE [phase |-> phase_arg, deployments |-> deployments,
              overall_status |-> IF FailedDeployments(deployments) # {}
                                 THEN "failed" ELSE "success",
              error |-> ""]

\* main with --phase deploy, after initialize_connections returned True
main_deploy(configured, files, order) ==
    LET r == deploy_aci_configuration("all", configured, files, order)
    IN  IF r.overall_status = "failed"
        THEN [results |-> r, exit_code |-> 1,
              log |-> <<"ACI configuration deployment failed">>]
        ELSE [results |-> r, exit_code |-> 0,
              log |-> <<"ACI configuration deployed successfully">>]

-----------------------------------------------------------------------------
(* SpecParse: parse_config_file reading one file line by line *)

\* lines a configuration file is made of
Lines ==
    {"", "! core switch", "hostname sw1", "hostname",
     "vlan 10", "vlan 20", "vlan 10-12", "vlan 10,20", "vlan 10,20-22", "vlan 10-",
     "  name Eng", "name X",
     "interface Eth1/1", "interface Eth1/2",
     "  description uplink", "  switchport mode trunk",
     "  switchport access vlan 10", "  switchport trunk allowed vlan 10,20-22",
     "  switchport trunk allowed vlan add 30-",
     "router bgp 65000", "  mtu 9216"}

ExpanderIdle == vlan_string = "" /\ vlan_list = Ok(<<>>)

NoConsistency ==
    [status |-> "unknown", details |-> [total_vlans |-> 0, inconsistent_vlans |-> <<>>]]

NoResults == [overall_status |-> "unknown", checks |-> <<>>]

NoInputs == [nodes |-> Non200Reply, faults |-> Non200Reply, table |-> UnreadableTable]

CheckIdle == check_inputs = NoInputs /\ vlan_mapping = <<>>

NoDeployment ==
    [results |-> [phase |-> "", deployments |-> <<>>, overall_status |-> "unknown",
                  error |-> ""],
     exit_code |-> 0, log |-> <<>>]

DeployIdle == tenant_files = <<>> /\ deployment = NoDeployment

ValidatorIdle ==
    /\ config_files = <<>>
    /\ parsed_configs = <<>>
    /\ vlan_consistency = NoConsistency
    /\ results = NoResults
    /\ CheckIdle

InitParse ==
    /\ phase = "parsing"
    /\ line = ""
    /\ config_data = EmptyConfig
    /\ current_section = "none"
    /\ current_interface = ""
    /\ last_emitted = <<>>
    /\ nlines = 0
    /\ ExpanderIdle
    /\ ValidatorIdle
    /\ DeployIdle

\* one iteration of the loop; an exception leaves the loop with the record as built
ReadLine ==
    /\ phase = "parsing"
    /\ nlines < MaxLines
    /\ \E raw \in Lines :
         LET st == ParseLine(LoopState(config_data, current_section,
                                       current_interface, last_emitted), raw)
         IN  /\ line' = raw
             /\ nlines' = nlines + 1
             /\ phase' = IF st.ok THEN "parsing" ELSE "aborted"
             /\ config_data' = st.cfg
             /\ current_section' = st.sec
             /\ current_interface' = st.ifc
             /\ last_emitted' = st.emitted
    /\ UNCHANGED <<expander_vars, validator_vars, deploy_vars>>

\* the loop ends and config_data is returned
EndOfFile ==
    /\ phase = "parsing"
    /\ phase' = "done"
    /\ UNCHANGED <<line, config_data, current_section, current_interface,
                   last_emitted, nlines>>
    /\ UNCHANGED <<expander_vars, validator_vars, deploy_vars>>

NextParse == ReadLine \/ EndOfFile

SpecParse == InitParse /\ [][NextParse]_vars

-----------------------------------------------------------------------------
(* SpecExpand: _parse_vlan_list applied to one range spec *)

Alphabet == {"0", "1", "2", "-", ",", " ", "a"}

RECURSIVE StringsUpTo(_)
StringsUpTo(n) ==
    IF n = 0 THEN {""}
    ELSE LET shorter == StringsUpTo(n - 1)
         IN  shorter \cup {s \o c : s \in shorter, c \in Alphabet}

ParserIdle ==
    /\ line = ""
    /\ config_data = EmptyConfig
    /\ current_section = "none"
    /\ current_interface = ""
    /\ last_emitted = <<>>
    /\ nlines = 0

InitExpand ==
    /\ phase = "idle"
    /\ ExpanderIdle
    /\ ParserIdle
    /\ ValidatorIdle
    /\ DeployIdle

\* one call; an exception raised is recorded as an outcome that is not ok
CallParseVlanList ==
    /\ phase = "idle"
    /\ \E s \in StringsUpTo(MaxSpecLen) :
         /\ vlan_string' = s
         /\ vlan_list' = parse_vlan_list(s)
    /\ phase' = "expanded"
    /\ UNCHANGED <<parser_vars, validator_vars, deploy_vars>>

NextExpand == CallParseVlanList

SpecExpand == InitExpand /\ [][NextExpand]_vars

-----------------------------------------------------------------------------
(* SpecLoad: parse_all_configs on a directory, then _check_vlan_consistency *)

FileNames == {"sw" \o ToString(i) \o ".cfg" : i \in 1..MaxDevices}

TextFile(lines) == [readable |-> TRUE, lines |-> lines]
UnreadableFile == [readable |-> FALSE, lines |-> <<>>]

FileA == TextFile(<<"hostname a", "vlan 10">>)
FileB == TextFile(<<"vlan 10", " name Eng", "vlan 50">>)
\* malformed range on the second line: VLAN 50 is parsed, VLAN 10 is never read
FileC == TextFile(<<"vlan 50", "vlan 20-", "vlan 10">>)

CfgFiles == {FileA, FileB, FileC, UnreadableFile}

InitLoad ==
    /\ phase = "constructed"
    /\ \E S \in SUBSET FileNames : config_files \in [S -> CfgFiles]
    /\ parsed_configs = <<>>
    /\ vlan_consistency = NoConsistency
    /\ results = NoResults
    /\ CheckIdle
    /\ ExpanderIdle
    /\ ParserIdle
    /\ DeployIdle

ParseAllConfigs ==
    /\ phase \in {"constructed", "parsed", "stale"}
    /\ \E order \in Orders(DOMAIN config_files) :
         LET r == ParseAll(parsed_configs, config_files, order)
         IN  /\ parsed_configs' = r.val
             /\ phase' = IF r.ok THEN "parsed" ELSE "raised"
    /\ UNCHANGED <<config_files, vlan_consistency, results, check_inputs,
                   vlan_mapping>>
    /\ UNCHANGED <<expander_vars, parser_vars, deploy_vars>>

CheckVlanConsistency ==
    /\ phase = "parsed"
    /\ \E vlan_order \in Orders(AllVlans(parsed_configs)) :
         vlan_consistency' = check_vlan_consistency(parsed_configs, vlan_order)
    /\ phase' = "checked"
    /\ UNCHANGED <<config_files, parsed_configs, results, check_inputs,
                   vlan_mapping>>
    /\ UNCHANGED <<expander_vars, parser_vars, deploy_vars>>

NextLoad == ParseAllConfigs \/ CheckVlanConsistency

SpecLoad == InitLoad /\ [][NextLoad]_vars

-----------------------------------------------------------------------------
(* SpecCheck: pre_migration_check on a fresh validator *)

Dir1(f1) == "sw1.cfg" :> f1
Dir2(f1, f2) == ("sw1.cfg" :> f1) @@ ("sw2.cfg" :> f2)
Dir3(f1, f2, f3) == ("sw1.cfg" :> f1) @@ ("sw2.cfg" :> f2) @@ ("sw3.cfg" :> f3)

CheckDirs ==
    {<<>>, Dir1(FileA), Dir1(FileC), Dir1(UnreadableFile),
     Dir2(FileA, FileA), Dir2(FileA, FileB), Dir2(FileC, FileC),
     Dir3(FileB, FileB, FileA)}

NodeReplies ==
    {RaisingReply, Non200Reply, NodesReply(0, 0), NodesReply(2, 2),
     NodesReply(5, 4), NodesReply(5, 3)}

FaultReplies ==
    {RaisingReply, Non200Reply, FaultsReply(0), FaultsReply(1), FaultsReply(5),
     FaultsReply(6)}

MappingTables ==
    {UnreadableTable,
     Table(RequiredColumns, <<>>),
     Table(RequiredColumns, <<"10">>),
     Table(RequiredColumns, <<"10", "50", "10">>),
     Table(RequiredColumns \ {"Subnet"}, <<>>),
     Table(RequiredColumns \ {"Subnet"}, <<"10">>),
     Table(RequiredColumns \ {"Subnet"}, <<"10", "50">>),
     Table(RequiredColumns \ {"Nexus_VLAN"}, <<"10">>)}

InitCheck ==
    /\ phase = "constructed"
    /\ config_files \in CheckDirs
    /\ parsed_configs = <<>>
    /\ vlan_consistency = NoConsistency
    /\ results = NoResults
    /\ CheckIdle
    /\ ExpanderIdle
    /\ ParserIdle
    /\ DeployIdle

PreMigrationCheck ==
    /\ phase = "constructed"
    /\ \E nodes \in NodeReplies, faults \in FaultReplies, table \in MappingTables,
          order \in Orders(DOMAIN config_files) :
         LET r == ParseAll(parsed_configs, config_files, order)
             mapping == generate_migration_mapping(table)
         IN  /\ parsed_configs' = r.val
             /\ check_inputs' = [nodes |-> nodes, faults |-> faults, table |-> table]
             /\ IF r.ok
                THEN /\ \E vlan_order \in Orders(AllVlans(r.val)) :
                          results' = pre_migration_check(
                                         validate_fabric_health(nodes, faults), r.val,
                                         vlan_order, mapping)
                     /\ vlan_mapping' = mapping
                     /\ phase' = "validated"
                ELSE /\ results' = results
                     /\ vlan_mapping' = vlan_mapping
                     /\ phase' = "raised"
    /\ UNCHANGED <<config_files, vlan_consistency>>
    /\ UNCHANGED <<expander_vars, parser_vars, deploy_vars>>

NextCheck == PreMigrationCheck

SpecCheck == InitCheck /\ [][NextCheck]_vars

-----------------------------------------------------------------------------
(* Properties of pre_migration_check, under SpecCheck *)

CheckStatus(c) == results.checks[c].status

InconsistentReported == results.checks.vlan_consistency.details.inconsistent_vlans

\* C1: the overall status is 'fail' iff at least one of the four checks has status
\* 'fail' and 'pass' otherwise, so never 'warning', 'error' or 'unknown'; a
\* 'warning' consistency check with the three other checks 'pass' gives 'pass'.
C1_OverallFailIffSomeCheckFails ==
    phase = "validated" =>
        /\ DOMAIN results.checks = CheckNames
        /\ results.overall_status = "fail" <=> \E c \in CheckNames : CheckStatus(c) = "fail"
        /\ results.overall_status = "pass" <=> \A c \in CheckNames : CheckStatus(c) # "fail"
        /\ results.overall_status \in {"pass", "fail"}
        /\ (/\ CheckStatus("vlan_consistency") = "warning"
            /\ \A c \in CheckNames \ {"vlan_consistency"} : CheckStatus(c) = "pass")
           => results.overall_status = "pass"

C1_Witness ==
    /\ phase = "validated"
    /\ CheckStatus("vlan_consistency") = "warning"
    /\ \A c \in CheckNames \ {"vlan_consistency"} : CheckStatus(c) = "pass"
    /\ results.overall_status = "pass"

\* C3: the consistency check is 'pass' exactly when no inconsistency is listed (which
\* is when all devices define the same VLAN ids) and 'warning' otherwise, never
\* 'fail'; an overall 'fail' always comes with a failed check other than it.
C3_InconsistencyOnlyWarns ==
    phase = "validated" =>
        /\ CheckStatus("vlan_consistency") = "pass" <=> Len(InconsistentReported) = 0
        /\ CheckStatus("vlan_consistency") = "warning" <=> Len(InconsistentReported) > 0
        /\ Len(InconsistentReported) = 0 <=>
             \A i, j \in 1..Len(parsed_configs) :
                KeySet(parsed_configs[i].val.vlans) = KeySet(parsed_configs[j].val.vlans)
        /\ CheckStatus("vlan_consistency") # "fail"
        /\ results.overall_status = "fail" =>
             \E c \in CheckNames \ {"vlan_consistency"} : CheckStatus(c) = "fail"

C3_Witness ==
    /\ phase = "validated"
    /\ Len(parsed_configs) = 3
    /\ Len(InconsistentReported) > 0
    /\ CheckStatus("vlan_consistency") = "warning"
    /\ results.checks.fabric_health.status = "fail"

-----------------------------------------------------------------------------
(* Properties of parse_all_configs and _check_vlan_consistency, under SpecLoad *)

DevicesOf(configs) == KeySet(configs)

VlansOn(configs, sw) == KeySet(DictGet(configs, sw).vlans)

NoDuplicates(xs) == \A i, j \in 1..Len(xs) : xs[i] = xs[j] => i = j

\* C2: a VLAN id is listed iff some device defines it and some device lacks it; no
\* id is listed twice; missing_from names exactly the devices lacking the id; and
\* total_vlans counts the union of the devices' VLAN ids.
C2_InconsistentIffMissingSomewhere ==
    phase = "checked" =>
        LET listed == vlan_consistency.details.inconsistent_vlans
            devices == DevicesOf(parsed_configs)
            union == UNION {VlansOn(parsed_configs, sw) : sw \in devices}
        IN  /\ \A v \in union \cup {listed[i].vlan : i \in 1..Len(listed)} :
                  (\E i \in 1..Len(listed) : listed[i].vlan = v) <=>
                     /\ \E sw \in devices : v \in VlansOn(parsed_configs, sw)
                     /\ \E sw \in devices : v \notin VlansOn(parsed_configs, sw)
            /\ NoDuplicates([i \in 1..Len(listed) |-> listed[i].vlan])
            /\ \A i \in 1..Len(listed) :
                  /\ Range(listed[i].missing_from) =
                        {sw \in devices : listed[i].vlan \notin VlansOn(parsed_configs, sw)}
                  /\ NoDuplicates(listed[i].missing_from)
            /\ vlan_consistency.details.total_vlans = Cardinality(union)

\* three devices, VLAN 50 on two of them: one entry, naming the third
C2_Witness ==
    /\ phase = "checked"
    /\ Len(parsed_configs) = 3
    /\ "50" \in VlansOn(parsed_configs, "sw1") \cap VlansOn(parsed_configs, "sw2")
    /\ vlan_consistency.details.inconsistent_vlans =
          <<[vlan |-> "50", missing_from |-> <<"sw3">>]>>
    /\ vlan_consistency.details.total_vlans = 2

\* the record of a file whose parse is aborted: the facts of the lines before the
\* failing line
IsPrefixParse(file, cfg) ==
    \E k \in 1..Len(file.lines) :
        LET before == ParseFrom(LoopState(EmptyConfig, "none", "", <<>>),
                                SubSeq(file.lines, 1, k - 1))
        IN  /\ before.ok
            /\ ~ParseLine(before, file.lines[k]).ok
            /\ cfg = before.cfg

\* C10: parse_all_configs returns, with exactly one entry per file, keyed by the
\* file's stem; a file with a malformed range has the record of the lines before the
\* failing line, and every other file has the record its own content gives, whatever
\* the other files hold.
C10_OneBadFileDoesNotAbortTheLoad ==
    /\ phase # "raised"
    /\ phase \in {"parsed", "checked"} =>
        /\ Len(parsed_configs) = Cardinality(DOMAIN config_files)
        /\ \A f \in DOMAIN config_files :
              /\ Cardinality({i \in 1..Len(parsed_configs) :
                                 parsed_configs[i].key = Stem(f)}) = 1
              /\ IF FileFails(config_files[f])
                 THEN IsPrefixParse(config_files[f], DictGet(parsed_configs, Stem(f)))
                 ELSE DictGet(parsed_configs, Stem(f)) =
                         DictGet(ParseAll(<<>>, f :> config_files[f], <<f>>).val, Stem(f))

C10_Witness ==
    /\ phase = "parsed"
    /\ DOMAIN config_files = {"sw1.cfg", "sw2.cfg"}
    /\ config_files["sw1.cfg"] = FileC
    /\ Keys(DictGet(parsed_configs, "sw1").vlans) = <<"50">>
    /\ Keys(DictGet(parsed_configs, "sw2").vlans) = <<"10", "50">>

-----------------------------------------------------------------------------
(* Properties of _parse_vlan_list, under SpecExpand *)

Tokens(s) == SplitOn(s, ",")

\* a token that is a range A-B of two unsigned integers
IsRangeToken(t) ==
    LET pieces == SplitOn(t, "-")
    IN  Len(pieces) = 2 /\ AllDigits(pieces[1]) /\ AllDigits(pieces[2])

\* a token the expander is specified for: an integer, or a range A-B with A <= B
ValidToken(t) ==
    \/ AllDigits(t)
    \/ IsRangeToken(t) /\ DecVal(SplitOn(t, "-")[1]) <= DecVal(SplitOn(t, "-")[2])

TokenValues(t) ==
    IF AllDigits(t) THEN <<DecVal(t)>>
    ELSE LET a == DecVal(SplitOn(t, "-")[1])
             b == DecVal(SplitOn(t, "-")[2])
         IN  [i \in 1..(b - a + 1) |-> a + i - 1]

RECURSIVE ConcatValues(_)
ConcatValues(tokens) ==
    IF Len(tokens) = 0 THEN <<>>
    ELSE TokenValues(tokens[1]) \o ConcatValues(Tail(tokens))

\* C4: for a range spec made of integers and ranges A-B with A <= B, the expander
\* returns the values of the tokens' expansions concatenated in token order, neither
\* sorted nor deduplicated (its elements are the decimal strings of the values).
C4_ExpansionInTokenOrder ==
    (phase = "expanded" /\ \A i \in 1..Len(Tokens(vlan_string)) :
                              ValidToken(Tokens(vlan_string)[i])) =>
        /\ vlan_list.ok
        /\ [i \in 1..Len(vlan_list.val) |-> IntOf(vlan_list.val[i])]
              = ConcatValues(Tokens(vlan_string))
        /\ \A i \in 1..Len(vlan_list.val) : IsIntLit(vlan_list.val[i])

C4_Witness ==
    /\ phase = "expanded"
    /\ vlan_string = "1,0-2"
    /\ vlan_list = Ok(<<"1", "0", "1", "2">>)

\* C5: a range spec with a token that is neither an integer literal nor a two-sided
\* range of integer literals makes the expander fail.
C5_MalformedTokenFails ==
    (phase = "expanded" /\ \E i \in 1..Len(Tokens(vlan_string)) :
                              LET t == Tokens(vlan_string)[i]
                                  pieces == SplitOn(t, "-")
                              IN  /\ ~IsIntLit(t)
                                  /\ ~(/\ Len(pieces) = 2
                                       /\ IsIntLit(pieces[1])
                                       /\ IsIntLit(pieces[2])))
        => ~vlan_list.ok

-----------------------------------------------------------------------------
(* Properties of parse_config_file, under SpecParse *)

\* a step of the loop body on the line that line' holds
ReadsLine == phase = "parsing" /\ nlines' = nlines + 1

\* C6: a `vlan <arg>` line enters the vlan section and inserts one default-named
\* record for each id of the expander's expansion of <arg>, and nothing else.
C6_VlanLineUsesExpander ==
    [][(ReadsLine /\ StartsWith(Strip(line'), "vlan ")) =>
          LET expansion == parse_vlan_list(SplitWs(Strip(line'))[2])
          IN  expansion.ok =>
                /\ phase' = "parsing"
                /\ current_section' = "vlan"
                /\ KeySet(config_data'.vlans) =
                      KeySet(config_data.vlans) \cup Range(expansion.val)
                /\ \A id \in Range(expansion.val) :
                      DictGet(config_data'.vlans, id).name = DefaultName(id)]_vars

\* C7: a `name N` line in the vlan section names the last id emitted by the most
\* recent `vlan` line, and leaves every other VLAN record as it was.
C7_NameGoesToLastEmitted ==
    [][(/\ ReadsLine
        /\ current_section = "vlan"
        /\ StartsWith(Strip(line'), "name ")
        /\ Len(last_emitted) > 0) =>
          LET target == last_emitted[Len(last_emitted)]
          IN  /\ phase' = "parsing"
              /\ Keys(config_data'.vlans) = Keys(config_data.vlans)
              /\ DictGet(config_data'.vlans, target).name =
                    JoinSp(Tail(SplitWs(Strip(line'))))
              /\ \A id \in KeySet(config_data.vlans) \ {target} :
                    DictGet(config_data'.vlans, id) = DictGet(config_data.vlans, id)]_vars

\* the interface of the current interface section, when there is one
InInterface == current_section = "interface" /\ current_interface # ""

\* the step wrote vlan_members of the current interface and nothing else
OnlyMembersSet(members) ==
    /\ phase' = "parsing"
    /\ current_section' = current_section
    /\ current_interface' = current_interface
    /\ Keys(config_data'.interfaces) = Keys(config_data.interfaces)
    /\ DictGet(config_data'.interfaces, current_interface) =
          [DictGet(config_data.interfaces, current_interface) EXCEPT !.vlans = members]
    /\ \A name \in KeySet(config_data.interfaces) \ {current_interface} :
          DictGet(config_data'.interfaces, name) = DictGet(config_data.interfaces, name)
    /\ config_data'.vlans = config_data.vlans
    /\ config_data'.hostname = config_data.hostname

\* C8: in the interface section `switchport trunk allowed vlan <list>` replaces the
\* current interface's vlan_members by the expander's expansion of <list>, and
\* `switchport access vlan <n>` by [n]; no other interface and no VLAN record
\* changes. The current interface is the one the most recent `interface` line named.
C8_SwitchportSetsMembersOfCurrentInterface ==
    [][ReadsLine =>
          LET ln == Strip(line')
              toks == SplitWs(ln)
              expansion == parse_vlan_list(JoinSp(SubSeq(toks, 5, Len(toks))))
          IN  /\ (/\ InInterface
                  /\ StartsWith(ln, "switchport trunk allowed vlan ")
                  /\ expansion.ok) => OnlyMembersSet(expansion.val)
              /\ (/\ InInterface
                  /\ StartsWith(ln, "switchport access vlan ")
                  /\ Len(toks) = 4) => OnlyMembersSet(<<toks[4]>>)
              /\ StartsWith(ln, "interface ") => current_interface' = toks[2]
              /\ ~StartsWith(ln, "interface ") =>
                    current_interface' \in {current_interface, ""}]_vars

C8_Witness ==
    /\ phase = "parsing"
    /\ line = "  switchport trunk allowed vlan 10,20-22"
    /\ current_interface = "Eth1/1"
    /\ Keys(config_data.interfaces) = <<"Eth1/2", "Eth1/1">>
    /\ DictGet(config_data.interfaces, "Eth1/1") =
          [type |-> "unknown", mode |-> "trunk",
           vlans |-> <<"10", "20", "21", "22">>, description |-> ""]

\* a line one of the parser's rules names, in the section the parser is in
Recognized(ln, section) ==
    \/ Len(ln) = 0
    \/ StartsWith(ln, "!")
    \/ StartsWith(ln, "hostname")
    \/ StartsWith(ln, "vlan ")
    \/ StartsWith(ln, "interface ")
    \/ section = "vlan" /\ StartsWith(ln, "name ")
    \/ section = "interface" /\ \/ StartsWith(ln, "description ")
                                \/ StartsWith(ln, "switchport mode")
                                \/ StartsWith(ln, "switchport access vlan")
                                \/ StartsWith(ln, "switchport trunk allowed vlan")

\* C9: while a section is active, an unindented line that no rule recognizes resets
\* the current section and the current interface to none.
C9_UnrecognizedTopLevelLineResets ==
    [][(/\ ReadsLine
        /\ current_section # "none"
        /\ ~StartsWith(line', " ")
        /\ ~Recognized(Strip(line'), current_section)) =>
          /\ current_section' = "none"
          /\ current_interface' = ""]_vars

-----------------------------------------------------------------------------
(* SpecReload: parse_all_configs called again and again on one parser, while *)
(* files are removed from config_dir between the calls                       *)

ReloadFiles == {FileA, FileB}

InitReload ==
    /\ phase = "constructed"
    /\ \E S \in SUBSET FileNames : config_files \in [S -> ReloadFiles]
    /\ parsed_configs = <<>>
    /\ vlan_consistency = NoConsistency
    /\ results = NoResults
    /\ CheckIdle
    /\ ExpanderIdle
    /\ ParserIdle
    /\ DeployIdle

\* a file is removed: the corpus returned last is stale until the next call,
\* whose glob lists the directory again
RemoveFile ==
    /\ phase \in {"constructed", "parsed", "stale"}
    /\ \E gone \in DOMAIN config_files :
         config_files' = [f \in DOMAIN config_files \ {gone} |-> config_files[f]]
    /\ phase' = IF phase = "constructed" THEN "constructed" ELSE "stale"
    /\ UNCHANGED <<parsed_configs, vlan_consistency, results, check_inputs,
                   vlan_mapping>>
    /\ UNCHANGED <<expander_vars, parser_vars, deploy_vars>>

NextReload == ParseAllConfigs \/ RemoveFile

SpecReload == InitReload /\ [][NextReload]_vars

-----------------------------------------------------------------------------
(* Properties of repeated parse_all_configs calls, under SpecReload *)

\* C11: the corpus every call of parse_all_configs returns holds exactly the
\* devices whose files are in the directory at that call; no entry of an earlier
\* call survives the removal of its file.
C11_CorpusIsTheDirectoryAtEachCall ==
    phase = "parsed" =>
        KeySet(parsed_configs) = {Stem(f) : f \in DOMAIN config_files}

-----------------------------------------------------------------------------
(* Properties of the mapping load in pre_migration_check, under SpecCheck *)

LacksColumn(table) == table.readable /\ ~(RequiredColumns \subseteq table.header)

\* C12: a mapping table whose header lacks a required column loads as the empty
\* mapping, never as a partial one, whatever its number of rows; the failure does
\* not leave pre_migration_check, whose migration_mapping check is then 'fail'.
C12_MissingColumnLoadsNothing ==
    (phase # "constructed" /\ LacksColumn(check_inputs.table)) =>
        /\ phase = "validated"
        /\ vlan_mapping = <<>>
        /\ CheckStatus("migration_mapping") = "fail"

C12_Witness ==
    /\ phase = "validated"
    /\ LacksColumn(check_inputs.table)
    /\ Len(check_inputs.table.rows) = 2
    /\ vlan_mapping = <<>>
    /\ CheckStatus("migration_mapping") = "fail"

-----------------------------------------------------------------------------
(* Order of missing_from in _check_vlan_consistency, under SpecLoad *)

\* position of a DeviceId of FileNames in the sorted order of the DeviceIds
DeviceRank(id) == CHOOSE i \in 1..MaxDevices : id = "sw" \o ToString(i)

SortedByDeviceId(ids) ==
    \A i, j \in 1..Len(ids) : i < j => DeviceRank(ids[i]) < DeviceRank(ids[j])

\* C13: in every inconsistency entry of _check_vlan_consistency, missing_from is
\* sorted by DeviceId, in whatever order the files were listed and inserted into
\* the corpus.
C13_MissingFromSortedByDeviceId ==
    phase = "checked" =>
        \A k \in 1..Len(vlan_consistency.details.inconsistent_vlans) :
            SortedByDeviceId(vlan_consistency.details.inconsistent_vlans[k].missing_from)

-----------------------------------------------------------------------------
(* Further properties of the loop of parse_config_file, under SpecParse *)

\* the two kinds of line that hand a range to be expanded
CarriesRange(ln) ==
    StartsWith(ln, "vlan ") \/ StartsWith(ln, "switchport trunk allowed vlan ")

\* C14: the parse of a file is aborted before its last line only on a line that
\* carries a range (a `vlan` line or a `switchport trunk allowed vlan` line); any
\* other line, a `hostname` line with no second token included, is processed or
\* ignored and the loop goes on.
C14_OnlyRangeLinesAbort ==
    [][(ReadsLine /\ ~CarriesRange(Strip(line'))) => phase' = "parsing"]_vars

\* C15: after any configuration is parsed, an interface record whose mode is
\* access, the default mode included, has at most one element in vlan_members (and
\* a trunk record has the expansion of its allowed-VLAN list). The formula states
\* the access half, at every point of the parse.
C15_AccessHasAtMostOneMember ==
    \A i \in 1..Len(config_data.interfaces) :
        config_data.interfaces[i].val.mode = "access" =>
            Len(config_data.interfaces[i].val.vlans) <= 1

\* C16: an indented line that none of the parser's rules matches changes nothing:
\* the hostname, the VLAN mapping, the interface records, the current section and
\* the current interface are as before (so a `name` line after it still names the
\* VLAN of the `vlan` line before it).
C16_IndentedUnknownLineChangesNothing ==
    [][(/\ ReadsLine
        /\ StartsWith(line', " ")
        /\ ~Recognized(Strip(line'), current_section)) =>
          /\ phase' = "parsing"
          /\ config_data' = config_data
          /\ current_section' = current_section
          /\ current_interface' = current_interface]_vars

-----------------------------------------------------------------------------
(* Properties of the config_parsing check, under SpecCheck *)

\* the file cannot be opened, or its parse is aborted before its last line
FailsToParse(file) == ~file.readable \/ FileFails(file)

\* C17: the config_parsing check is 'pass' iff the corpus has at least one device
\* entry, whether or not the parse of a file was aborted: it is 'pass' for a
\* directory all of whose files fail to parse, and 'fail' only when no
\* configuration file was found.
C17_ParsingPassesIffSomeDevice ==
    phase = "validated" =>
        /\ CheckStatus("config_parsing") \in {"pass", "fail"}
        /\ CheckStatus("config_parsing") = "pass" <=> Len(parsed_configs) > 0
        /\ (/\ DOMAIN config_files # {}
            /\ \A f \in DOMAIN config_files : FailsToParse(config_files[f]))
           => CheckStatus("config_parsing") = "pass"
        /\ CheckStatus("config_parsing") = "fail" => DOMAIN config_files = {}

C17_Witness ==
    /\ phase = "validated"
    /\ Cardinality(DOMAIN config_files) = 2
    /\ \A f \in DOMAIN config_files : FileFails(config_files[f])
    /\ CheckStatus("config_parsing") = "pass"

-----------------------------------------------------------------------------
(* Properties of validate_fabric_health in pre_migration_check, under SpecCheck *)

FabricHealth == results.checks.fabric_health.details

\* the counter a query sets: the count of its 200 reply, else the initial 0
Counted(reply, count) == IF reply.kind = "ok" THEN count ELSE 0

\* C19: overall_health is 'error' when a request raises; otherwise it is 'healthy'
\* iff critical_faults = 0 and nodes_up = total_nodes, else 'critical' if
\* critical_faults > 5 or nodes_up < 0.8 * total_nodes, else 'warning'. A query
\* answered with a status other than 200 leaves its counters at 0, so two such
\* answers give 'healthy' with total_nodes = 0 and the fabric_health check passes.
C19_FabricHealthTiers ==
    phase = "validated" =>
        LET h == FabricHealth
            nodes == check_inputs.nodes
            faults == check_inputs.faults
            all_up == h.critical_faults = 0 /\ h.nodes_up = h.total_nodes
            degraded == h.critical_faults > 5 \/ 10 * h.nodes_up < 8 * h.total_nodes
        IN  /\ (nodes.kind = "raise" \/ faults.kind = "raise") =>
                  h.overall_health = "error"
            /\ (nodes.kind # "raise" /\ faults.kind # "raise") =>
                  /\ h.total_nodes = Counted(nodes, nodes.total)
                  /\ h.nodes_up = Counted(nodes, nodes.up)
                  /\ h.critical_faults = Counted(faults, faults.total)
                  /\ h.overall_health = "healthy" <=> all_up
                  /\ h.overall_health = "critical" <=> (~all_up /\ degraded)
                  /\ h.overall_health = "warning" <=> (~all_up /\ ~degraded)
            /\ (nodes.kind = "status" /\ faults.kind = "status") =>
                  /\ h.overall_health = "healthy"
                  /\ h.total_nodes = 0
                  /\ CheckStatus("fabric_health") = "pass"

C19_Witness ==
    /\ phase = "validated"
    /\ check_inputs.nodes = Non200Reply
    /\ check_inputs.faults = Non200Reply
    /\ FabricHealth.overall_health = "healthy"
    /\ FabricHealth.total_nodes = 0
    /\ CheckStatus("fabric_health") = "pass"

-----------------------------------------------------------------------------
(* SpecDeploy: deploy_aci_configuration, called directly or by main *)

TenantFileNames ==
    {"tenant" \o ToString(i) \o ".json" : i \in 1..MaxTenants} \cup {"status.json"}

TenantFiles ==
    {TenantFile(PostStatus(201)), TenantFile(PostStatus(400)), TenantFile(PostRaises),
     UnreadableTenant}

InitDeploy ==
    /\ phase = "initialized"
    /\ \E S \in SUBSET TenantFileNames : tenant_files \in [S -> TenantFiles]
    /\ deployment = NoDeployment
    /\ ExpanderIdle
    /\ ParserIdle
    /\ ValidatorIdle

DeployAciConfiguration ==
    /\ phase = "initialized"
    /\ \E phase_arg \in {"fabric", "tenants", "all"}, configured \in BOOLEAN,
          order \in Orders(DOMAIN tenant_files) :
         deployment' = [results |-> deploy_aci_configuration(phase_arg, configured,
                                                             tenant_files, order),
                        exit_code |-> 0, log |-> <<>>]
    /\ phase' = "deployed"
    /\ UNCHANGED <<tenant_files, expander_vars, parser_vars, validator_vars>>

MainDeploy ==
    /\ phase = "initialized"
    /\ \E configured \in BOOLEAN, order \in Orders(DOMAIN tenant_files) :
         deployment' = main_deploy(configured, tenant_files, order)
    /\ phase' = "exited"
    /\ UNCHANGED <<tenant_files, expander_vars, parser_vars, validator_vars>>

NextDeploy == DeployAciConfiguration \/ MainDeploy

SpecDeploy == InitDeploy /\ [][NextDeploy]_vars

-----------------------------------------------------------------------------
(* Properties of the deployment, under SpecDeploy *)

\* the tenant of the file was not created
TenantFails(file) == ~file.readable \/ ~create_tenant(file.reply)

SomeTenantFails == \E f \in DOMAIN tenant_files : TenantFails(tenant_files[f])

\* C18: deploy_aci_configuration with phase 'tenants' or 'all' returns
\* overall_status 'failed' whenever the creation of at least one tenant failed, so
\* the deploy phase of main exits with an error then, and logs "ACI configuration
\* deployed successfully" only when every tenant was created.
C18_FailedTenantFailsTheDeployment ==
    /\ (/\ phase \in {"deployed", "exited"}
        /\ deployment.results.phase \in {"tenants", "all"}
        /\ SomeTenantFails) => deployment.results.overall_status = "failed"
    /\ (phase = "exited" /\ SomeTenantFails) =>
          /\ deployment.exit_code = 1
          /\ deployment.log # <<"ACI configuration deployed successfully">>


====
